---- MODULE Spec2Model ----
(***************************************************************************)
(* Waiting-list trajectory simulators of the repository.                   *)
(*                                                                         *)
(*   forecast : src/LCH_WLSimulator_Main.py  (simulate_future, the 65th   *)
(*              percentile extrapolation, initiatives, two reset slots)    *)
(*   initiative : src/LCH_WL_Simulator_Branch6.py (table-driven loop with  *)
(*              open-ended initiative events and a 'Do Nothing' loop)      *)
(*   locum    : src/comm_paeds_streamlit_branch_branch.py (table-driven    *)
(*              loop with locum events and two global adjustments)         *)
(*   daily    : src/comm_paeds_streamlit_final.py (table-driven loop with  *)
(*              two global adjustments)                                    *)
(*                                                                         *)
(* Dates are week numbers (one unit = one week / one table period).        *)
(* A missing cell (NaN) of a data column is the empty sequence <<>>, a     *)
(* present cell with value v is <<v>>.  Python's None is the number 0,     *)
(* which is falsy like None and is no date and no reset value.             *)
(***************************************************************************)
EXTENDS Integers, Sequences, FiniteSets, TLC

VARIABLES
    variant,            \* which script runs
    pc,                 \* position in the script
    error,              \* "" or the exception that ended the script
    df,                 \* the data table (service_df / df), in table order
    today,              \* the as-of cutoff of the forecast script
    initiatives,        \* forecast: list of initiative dicts built by the sidebar
    reset_date_1, reset_value_1, reset_date_2, reset_value_2,
    run,                \* forecast: "baseline" or "future" call of simulate_future
    weeks_ahead,        \* forecast: argument of simulate_future
    i,                  \* forecast: loop index of simulate_future
    wl,                 \* forecast: running waiting list value
    future_data,        \* forecast: rows appended by the running call
    step,               \* forecast: locals of the last completed iteration
    step_log,           \* forecast: the locals of every completed iteration of
                        \*           the running call, in order
    baseline_future,    \* forecast: result of the baseline call
    future,             \* forecast: result of the call with initiatives
    download_df,        \* forecast: exported table
    initial_waiting_list,
    demand_adjustment, capacity_adjustment,
    events,             \* table scripts: list of <<start, capacity>> events
    adjustment,         \* table scripts: the *_Capacity_Adjustment column
    week,               \* table scripts: loop index
    waiting_list,       \* table scripts: list built by the main loop
    waiting_list_no_initiatives,
    simulated,          \* table scripts: the Simulated_Waiting_List column
    simulated_no_initiatives    \* initiative: the Waiting_List_No_Initiatives column

vars == <<variant, pc, error, df, today, initiatives, reset_date_1, reset_value_1,
          reset_date_2, reset_value_2, run, weeks_ahead, i, wl, future_data, step,
          step_log, baseline_future, future, download_df, initial_waiting_list,
          demand_adjustment, capacity_adjustment, events, adjustment, week,
          waiting_list, waiting_list_no_initiatives, simulated,
          simulated_no_initiatives>>

forecastVars == <<today, initiatives, reset_date_1, reset_value_1, reset_date_2,
                  reset_value_2, run, weeks_ahead, i, wl, future_data, step,
                  step_log, baseline_future, future, download_df>>

tableVars == <<initial_waiting_list, demand_adjustment, capacity_adjustment, events,
               adjustment, week, waiting_list, waiting_list_no_initiatives, simulated,
               simulated_no_initiatives>>

(***************************************************************************)
(* Bounds of the model.                                                    *)
(***************************************************************************)
\* rows of the forecast script's data table
MaxRows == 2
\* largest weeks_ahead passed to simulate_future (the script passes 52)
MaxWeeksAhead == 3
\* initiative / locum slots of the sidebar (the scripts have 5)
NumSlots == 2
\* rows of the table-driven scripts' data table
MaxTableRows == 3
\* rows of the forecast script's data table under SpecQuantile
MaxHistory == 5

None == 0

Max(a, b) == IF a >= b THEN a ELSE b

RECURSIVE SumSeq(_)
SumSeq(s) == IF s = <<>> THEN 0 ELSE Head(s) + SumSeq(Tail(s))

(***************************************************************************)
(* Series.dropna().quantile(0.65) followed by int().                       *)
(***************************************************************************)
\* a faulty variant: a missing cell is read as 0 instead of being dropped
RECURSIVE C11_dropnaFillZero(_, _)
C11_dropnaFillZero(rows, col) ==
    IF rows = <<>> THEN <<>>
    ELSE (IF rows[1][col] = <<>> THEN <<0>> ELSE rows[1][col])
         \o C11_dropnaFillZero(Tail(rows), col)

\* the cells of one column, missing cells dropped, in table order
RECURSIVE dropna(_, _)
dropna(rows, col) ==
    IF rows = <<>> THEN <<>>
    ELSE rows[1][col] \o dropna(Tail(rows), col)

RECURSIVE Insert(_, _)
Insert(x, s) ==
    IF s = <<>> THEN <<x>>
    ELSE IF x <= Head(s) THEN <<x>> \o s
    ELSE <<Head(s)>> \o Insert(x, Tail(s))

RECURSIVE SortAsc(_)
SortAsc(s) == IF s = <<>> THEN <<>> ELSE Insert(Head(s), SortAsc(Tail(s)))

\* the quantile level, in percent
QuantilePercent == 65

\* 100 * quantile(q) of a non-empty list of numbers, by linear interpolation
\* between the order statistics around position q * (n - 1); exact arithmetic
quantile100(values) ==
    LET s    == SortAsc(values)
        n    == Len(s)
        pos  == QuantilePercent * (n - 1)
        lo   == pos \div 100
        frac == pos % 100
    IN  IF frac = 0 THEN 100 * s[lo + 1]
        ELSE 100 * s[lo + 1] + frac * (s[lo + 2] - s[lo + 1])

\* int(): truncation towards zero of x100 / 100
int100(x100) == IF x100 >= 0 THEN x100 \div 100 ELSE -((-x100) \div 100)

\* rows of the table strictly before a date
RowsBefore(table, date) == SelectSeq(table, LAMBDA r : r.WeekCommencing < date)

\* historic = service_df[service_df["WeekCommencing"] < today]
historic == RowsBefore(df, today)

\* last_actual_row = df[df["WeekCommencing"] < today].iloc[-1]
last_actual_row == historic[Len(historic)]

\* start_date = last_actual_row["WeekCommencing"]
start_date == last_actual_row.WeekCommencing

(***************************************************************************)
(* forecast: module level of src/LCH_WLSimulator_Main.py                   *)
(***************************************************************************)
\* number_input limits of the two reset values
ResetValueMin == 1
ResetValueMax == 3000

\* no iteration of simulate_future completed yet
NoStep == [i |-> -1, next_week |-> None, clock_start_65 |-> 0, clock_stop_65 |-> 0,
           adjusted_clock_stop |-> <<>>, wl_in |-> 0, wl_reset |-> 0, wl_next |-> 0]

Raise(e) ==
    /\ pc' = "error"
    /\ error' = e

\* "Percentile Calculation" of the module level.  It reads the columns
\* ClockStarts and ClockStops of the historic rows, taken here to hold a value
\* in every row: with no historic row the quantile is NaN and int() raises.
PercentileCalculation ==
    /\ variant = "forecast"
    /\ pc = "percentile"
    /\ IF historic = <<>>
       THEN Raise("ValueError")
       ELSE pc' = "sidebar" /\ error' = error
    /\ UNCHANGED <<variant, df, forecastVars, tableVars>>

\* the dicts appended to initiatives by slots k, k+1, ... of the sidebar
RECURSIVE BuildInitiatives(_, _)
BuildInitiatives(slots, k) ==
    IF k > Len(slots) THEN <<>>
    ELSE LET s    == slots[k]
             end  == IF s.use_end THEN s.end ELSE None
             base == [name |-> s.name, start |-> s.start, change |-> s.change]
             item == IF end # None
                     THEN [name |-> s.name, start |-> s.start, change |-> s.change,
                           end |-> end]
                     ELSE base
         IN  (IF s.name # "" /\ s.change # 0 THEN <<item>> ELSE <<>>)
             \o BuildInitiatives(slots, k + 1)

\* "Sidebar: Initiative Inputs" and "Sidebar: Waiting List Resets".  SlotInputs
\* and ResetInputs are the widget values the user may enter.
Sidebar(SlotInputs, ResetInputs) ==
    /\ variant = "forecast"
    /\ pc = "sidebar"
    /\ \E slots \in [1..NumSlots -> SlotInputs], r1 \in ResetInputs, r2 \in ResetInputs :
         LET default_reset_value == last_actual_row.Over52Weeks
             default_ok == default_reset_value \in ResetValueMin..ResetValueMax
         IN  /\ initiatives' = BuildInitiatives(slots, 1)
             /\ IF r1.enable /\ ~default_ok
                THEN \* number_input refuses a default outside its limits
                     /\ Raise("StreamlitAPIException")
                     /\ reset_date_1' = r1.date
                     /\ UNCHANGED <<reset_value_1, reset_date_2, reset_value_2, run>>
                ELSE IF r2.enable /\ ~r1.enable
                THEN \* last_actual_row is only bound in the Reset 1 branch
                     /\ Raise("NameError")
                     /\ reset_date_1' = None /\ reset_value_1' = None
                     /\ UNCHANGED <<reset_date_2, reset_value_2, run>>
                ELSE /\ reset_date_1' = (IF r1.enable THEN r1.date ELSE None)
                     /\ reset_value_1' = (IF r1.enable THEN r1.value ELSE None)
                     /\ reset_date_2' = (IF r2.enable THEN r2.date ELSE None)
                     /\ reset_value_2' = (IF r2.enable THEN r2.value ELSE None)
                     /\ run' = "baseline"
                     /\ pc' = "call"
                     /\ error' = error
    /\ UNCHANGED <<variant, df, today, weeks_ahead, i, wl, future_data, step,
                   step_log, baseline_future, future, download_df, tableVars>>

(***************************************************************************)
(* forecast: simulate_future(df, weeks_ahead, initiatives)                 *)
(***************************************************************************)
\* the initiatives argument of the running call
sim_initiatives == IF run = "baseline" THEN <<>> ELSE initiatives

\* item["start"] <= next_week and ("end" not in item or next_week <= item["end"])
IsActive(item, next_week) ==
    /\ item.start <= next_week
    /\ ("end" \notin DOMAIN item \/ next_week <= item.end)

\* the changes added to adjusted_clock_stop by the loop over the initiatives
RECURSIVE ActiveChange(_, _)
ActiveChange(items, next_week) ==
    IF items = <<>> THEN 0
    ELSE (IF IsActive(Head(items), next_week) THEN Head(items).change ELSE 0)
         + ActiveChange(Tail(items), next_week)

\* a faulty variant: the first simulated week is the last actual week itself
C9_NextWeekOffByOne(k) == start_date + k

\* next_week = start_date + pd.Timedelta(weeks=i+1)
NextWeek(k) == start_date + (k + 1)

\* extended_historic = df[df["WeekCommencing"] < next_week]
extended_historic(next_week) == RowsBefore(df, next_week)

\* a faulty variant: the quantile rounded to the nearest integer instead of truncated
C8_EstimateRounded(values) == (quantile100(values) + 50) \div 100

\* int(extended_historic[col].dropna().quantile(0.65)), for a non-empty column
Estimate(values) == int100(quantile100(values))

\* adjusted_clock_stop: the estimate plus the active changes, overridden by
\* the last actual ClockStops in the first iteration
AdjustedClockStop(k, clock_stop_65, items, next_week) ==
    IF k = 0 THEN last_actual_row.ClockStops
    ELSE <<clock_stop_65 + ActiveChange(items, next_week)>>

\* a faulty variant: the second reset slot is never applied
C6_ApplyResetsFirstSlotOnly(w, next_week) ==
    IF reset_date_1 # None /\ next_week = reset_date_1 THEN reset_value_1 ELSE w

\* "Apply resets if dates match"
ApplyResets(w, next_week) ==
    LET w1 == IF reset_date_1 # None /\ next_week = reset_date_1
              THEN reset_value_1 ELSE w
    IN  IF reset_date_2 # None /\ next_week = reset_date_2
        THEN reset_value_2 ELSE w1

\* a faulty variant: the subtraction without the floor at zero
C1_FloorSubNoFloor(w, adjusted_clock_stop) ==
    IF adjusted_clock_stop = <<>> THEN 0
    ELSE w - adjusted_clock_stop[1]

\* wl = max(0, wl - adjusted_clock_stop); a NaN difference compares False
\* with 0, so max keeps its first argument
FloorSub(w, adjusted_clock_stop) ==
    IF adjusted_clock_stop = <<>> THEN 0
    ELSE Max(0, w - adjusted_clock_stop[1])

\* wl_next: the demand estimate is added except in the last iteration
WlNext(k, n, w, clock_start_65) ==
    IF k < n - 1 THEN w + clock_start_65 ELSE w

\* a faulty variant: the second call goes on from the running value the
\* first call left behind
C12_EnterKeepsRunningValue ==
    /\ variant = "forecast"
    /\ pc = "call"
    /\ IF historic = <<>>
       THEN /\ Raise("IndexError")
            /\ UNCHANGED <<wl, i, future_data, step, step_log>>
       ELSE /\ wl' = IF run = "baseline" THEN last_actual_row.Over52Weeks ELSE wl
            /\ i' = 0
            /\ future_data' = <<>>
            /\ step' = NoStep
            /\ step_log' = <<>>
            /\ pc' = "loop"
            /\ error' = error
    /\ UNCHANGED <<variant, df, today, initiatives, reset_date_1, reset_value_1,
                   reset_date_2, reset_value_2, run, weeks_ahead, baseline_future,
                   future, download_df, tableVars>>

\* the entry of simulate_future: last_actual_row, wl, start_date, future_data
SimulateFutureEnter ==
    /\ variant = "forecast"
    /\ pc = "call"
    /\ IF historic = <<>>
       THEN /\ Raise("IndexError")
            /\ UNCHANGED <<wl, i, future_data, step, step_log>>
       ELSE /\ wl' = last_actual_row.Over52Weeks
            /\ i' = 0
            /\ future_data' = <<>>
            /\ step' = NoStep
            /\ step_log' = <<>>
            /\ pc' = "loop"
            /\ error' = error
    /\ UNCHANGED <<variant, df, today, initiatives, reset_date_1, reset_value_1,
                   reset_date_2, reset_value_2, run, weeks_ahead, baseline_future,
                   future, download_df, tableVars>>

\* one iteration of "for i in range(weeks_ahead)"
SimulateFutureStep ==
    /\ variant = "forecast"
    /\ pc = "loop"
    /\ i < weeks_ahead
    /\ LET next_week == NextWeek(i)
           starts    == dropna(extended_historic(next_week), "ClockStarts")
           stops     == dropna(extended_historic(next_week), "ClockStops")
       IN  IF starts = <<>> \/ stops = <<>>
           THEN \* the quantile of an empty column is NaN and int() raises
                /\ Raise("ValueError")
                /\ UNCHANGED <<i, wl, future_data, step, step_log>>
           ELSE LET clock_start_65 == Estimate(starts)
                    clock_stop_65  == Estimate(stops)
                    adjusted_clock_stop ==
                        AdjustedClockStop(i, clock_stop_65, sim_initiatives, next_week)
                    wl_reset == ApplyResets(wl, next_week)
                    wl_floor == FloorSub(wl_reset, adjusted_clock_stop)
                    wl_next  == WlNext(i, weeks_ahead, wl_floor, clock_start_65)
                IN  /\ future_data' = Append(future_data,
                            [WeekCommencing |-> next_week,
                             Simulated_WaitingList |-> wl_next])
                    /\ step' = [i |-> i, next_week |-> next_week,
                                clock_start_65 |-> clock_start_65,
                                clock_stop_65 |-> clock_stop_65,
                                adjusted_clock_stop |-> adjusted_clock_stop,
                                wl_in |-> wl, wl_reset |-> wl_reset,
                                wl_next |-> wl_next]
                    /\ step_log' = Append(step_log, step')
                    /\ wl' = wl_next
                    /\ i' = i + 1
                    /\ UNCHANGED <<pc, error>>
    /\ UNCHANGED <<variant, df, today, initiatives, reset_date_1, reset_value_1,
                   reset_date_2, reset_value_2, run, weeks_ahead, baseline_future,
                   future, download_df, tableVars>>

\* return pd.DataFrame(future_data), and the assignment of the result
SimulateFutureReturn ==
    /\ variant = "forecast"
    /\ pc = "loop"
    /\ i = weeks_ahead
    /\ IF run = "baseline"
       THEN /\ baseline_future' = future_data
            /\ run' = "future"
            /\ pc' = "call"
            /\ UNCHANGED future
       ELSE /\ future' = future_data
            /\ pc' = "export"
            /\ UNCHANGED <<baseline_future, run>>
    /\ UNCHANGED <<variant, error, df, today, initiatives, reset_date_1, reset_value_1,
                   reset_date_2, reset_value_2, weeks_ahead, i, wl, future_data, step,
                   step_log,
                   download_df, tableVars>>

\* get_active_initiatives(week): the labels "name (change)" of the active
\* initiatives, in list order; the list stands for their "; "-joined string
RECURSIVE get_active_initiatives(_, _)
get_active_initiatives(items, w) ==
    IF items = <<>> THEN <<>>
    ELSE (IF IsActive(Head(items), w)
          THEN <<[name |-> Head(items).name, change |-> Head(items).change]>>
          ELSE <<>>)
         \o get_active_initiatives(Tail(items), w)

\* "Combine actuals and forecast for download"
Export ==
    /\ variant = "forecast"
    /\ pc = "export"
    /\ LET weeks == [k \in 1..(Len(historic) + Len(future)) |->
                        IF k <= Len(historic) THEN historic[k].WeekCommencing
                        ELSE future[k - Len(historic)].WeekCommencing]
       IN  download_df' = [k \in 1..Len(weeks) |->
                [WeekCommencing |-> weeks[k],
                 Initiatives_Applied |-> get_active_initiatives(initiatives, weeks[k])]]
    /\ pc' = "done"
    /\ UNCHANGED <<variant, error, df, today, initiatives, reset_date_1, reset_value_1,
                   reset_date_2, reset_value_2, run, weeks_ahead, i, wl, future_data,
                   step, step_log, baseline_future, future, tableVars>>

(***************************************************************************)
(* The table-driven scripts.  A row of df is [Week, Starts, Stops]; the    *)
(* daily script names the same columns Day, Demand and Capacity.           *)
(***************************************************************************)
\* number_input limits of "Initial Waiting List"
InitialMin == 0
InitialMax == 3000
DailyInitialMax == 2500

\* a faulty variant: an event counts only strictly after its start week
RECURSIVE C3_CapacityAdjustmentStrict(_, _)
C3_CapacityAdjustmentStrict(evs, w) ==
    IF evs = <<>> THEN 0
    ELSE (IF w > Head(evs)[1] THEN Head(evs)[2] ELSE 0)
         + C3_CapacityAdjustmentStrict(Tail(evs), w)

\* df.loc[df['Week'] >= date, '..._Capacity_Adjustment'] += capacity_boost,
\* for every event of the list
RECURSIVE CapacityAdjustment(_, _)
CapacityAdjustment(evs, w) ==
    IF evs = <<>> THEN 0
    ELSE (IF w >= Head(evs)[1] THEN Head(evs)[2] ELSE 0)
         + CapacityAdjustment(Tail(evs), w)

\* new_waiting_list = max(waiting_list[-1] + net_change, 0)
NewWaitingList(previous, demand, capacity) ==
    LET net_change == demand - capacity
    IN  Max(previous + net_change, 0)

\* initiative: weekly_demand = df['Starts']
initiative_weekly_demand(k) == df[k].Starts

\* initiative: weekly_capacity = df['Stops'] + df['initiative_Capacity_Adjustment']
initiative_weekly_capacity(k) == df[k].Stops + adjustment[k]

\* initiative: weekly_capacity_no_initiatives = df['Stops']
weekly_capacity_no_initiatives(k) == df[k].Stops

\* locum: weekly_demand = df['Starts'] + demand_adjustment
locum_weekly_demand(k) == df[k].Starts + demand_adjustment

\* locum: weekly_capacity = df['Stops'] + capacity_adjustment + df['Locum_Capacity_Adjustment']
locum_weekly_capacity(k) == df[k].Stops + capacity_adjustment + adjustment[k]

\* daily: daily_demand = df['Demand'] + demand_adjustment
daily_demand(k) == df[k].Starts + demand_adjustment

\* daily: daily_capacity = df['Capacity'] + capacity_adjustment
daily_capacity(k) == df[k].Stops + capacity_adjustment

\* the sidebar of the initiative script: the initial value and the five
\* (start, capacity) events, every slot appended.  The widget's default, the
\* first row's Over52Weeks, is taken to lie within the widget's limits.
InitiativeSidebar(Initials, EventInputs) ==
    /\ variant = "initiative"
    /\ pc = "sidebar"
    /\ IF df = <<>>
       THEN \* df['Over52Weeks'].iloc[0] of an empty table
            /\ Raise("IndexError")
            /\ UNCHANGED <<initial_waiting_list, events>>
       ELSE \E v \in Initials, evs \in [1..NumSlots -> EventInputs] :
               /\ v \in InitialMin..InitialMax
               /\ initial_waiting_list' = v
               /\ events' = evs
               /\ pc' = "adjust"
               /\ error' = error
    /\ UNCHANGED <<variant, df, forecastVars, demand_adjustment, capacity_adjustment,
                   adjustment, week, waiting_list, waiting_list_no_initiatives,
                   simulated, simulated_no_initiatives>>

\* the sidebar of the locum script: the initial value, the two global
\* adjustments and the five (start, capacity) events.  The widget's default,
\* the first row's WaitingList, is taken to lie within the widget's limits.
LocumSidebar(Initials, Adjustments, EventInputs) ==
    /\ variant = "locum"
    /\ pc = "sidebar"
    /\ IF df = <<>>
       THEN \* df['WaitingList'].iloc[0] of an empty table
            /\ Raise("IndexError")
            /\ UNCHANGED <<initial_waiting_list, events, demand_adjustment,
                           capacity_adjustment>>
       ELSE \E v \in Initials, d \in Adjustments, c \in Adjustments,
               evs \in [1..NumSlots -> EventInputs] :
               /\ v \in InitialMin..InitialMax
               /\ initial_waiting_list' = v
               /\ demand_adjustment' = d
               /\ capacity_adjustment' = c
               /\ events' = evs
               /\ pc' = "adjust"
               /\ error' = error
    /\ UNCHANGED <<variant, df, forecastVars, adjustment, week, waiting_list,
                   waiting_list_no_initiatives, simulated,
                   simulated_no_initiatives>>

\* the sidebar of the daily script, and "Define Inputs"
DailySidebar(Initials, Adjustments) ==
    /\ variant = "daily"
    /\ pc = "sidebar"
    /\ \E v \in Initials, d \in Adjustments, c \in Adjustments :
          /\ v \in InitialMin..DailyInitialMax
          /\ initial_waiting_list' = v
          /\ demand_adjustment' = d
          /\ capacity_adjustment' = c
    /\ waiting_list' = <<initial_waiting_list'>>
    /\ week' = 0
    /\ pc' = "loop"
    /\ UNCHANGED <<variant, error, df, forecastVars, events, adjustment,
                   waiting_list_no_initiatives, simulated,
                   simulated_no_initiatives>>

\* "Apply Initiative Capacity Adjustments" / "Apply Locum-Specific Capacity
\* Adjustments", and the initialisation of the main loop
ApplyCapacityAdjustments ==
    /\ variant \in {"initiative", "locum"}
    /\ pc = "adjust"
    /\ adjustment' = [k \in 1..Len(df) |-> CapacityAdjustment(events, df[k].Week)]
    /\ waiting_list' = <<initial_waiting_list>>
    /\ week' = 0
    /\ pc' = "loop"
    /\ UNCHANGED <<variant, error, df, forecastVars, initial_waiting_list,
                   demand_adjustment, capacity_adjustment, events,
                   waiting_list_no_initiatives, simulated,
                   simulated_no_initiatives>>

\* one iteration of the main loop with the given demand and capacity
LoopStep(demand, capacity) ==
    /\ pc = "loop"
    /\ week < Len(df)
    /\ waiting_list' = Append(waiting_list,
            NewWaitingList(waiting_list[Len(waiting_list)], demand, capacity))
    /\ week' = week + 1
    /\ UNCHANGED <<variant, pc, error, df, forecastVars, initial_waiting_list,
                   demand_adjustment, capacity_adjustment, events, adjustment,
                   waiting_list_no_initiatives, simulated,
                   simulated_no_initiatives>>

InitiativeStep ==
    /\ variant = "initiative"
    /\ week < Len(df)
    /\ LoopStep(initiative_weekly_demand(week + 1), initiative_weekly_capacity(week + 1))

LocumStep ==
    /\ variant = "locum"
    /\ week < Len(df)
    /\ LoopStep(locum_weekly_demand(week + 1), locum_weekly_capacity(week + 1))

DailyStep ==
    /\ variant = "daily"
    /\ week < Len(df)
    /\ LoopStep(daily_demand(week + 1), daily_capacity(week + 1))

\* df['Simulated_Waiting_List'] = waiting_list[1:]
StoreSimulated ==
    /\ variant \in {"initiative", "locum", "daily"}
    /\ pc = "loop"
    /\ week = Len(df)
    /\ simulated' = Tail(waiting_list)
    /\ IF variant = "initiative"
       THEN /\ pc' = "nothing"
            /\ week' = 0
            /\ waiting_list_no_initiatives' = <<initial_waiting_list>>
       ELSE /\ pc' = "done"
            /\ UNCHANGED <<week, waiting_list_no_initiatives>>
    /\ UNCHANGED <<variant, error, df, forecastVars, initial_waiting_list,
                   demand_adjustment, capacity_adjustment, events, adjustment,
                   waiting_list, simulated_no_initiatives>>

\* one iteration of the 'Do Nothing' loop of the initiative script
DoNothingStep ==
    /\ variant = "initiative"
    /\ pc = "nothing"
    /\ week < Len(df)
    /\ waiting_list_no_initiatives' = Append(waiting_list_no_initiatives,
            NewWaitingList(waiting_list_no_initiatives[Len(waiting_list_no_initiatives)],
                           initiative_weekly_demand(week + 1),
                           weekly_capacity_no_initiatives(week + 1)))
    /\ week' = week + 1
    /\ UNCHANGED <<variant, pc, error, df, forecastVars, initial_waiting_list,
                   demand_adjustment, capacity_adjustment, events, adjustment,
                   waiting_list, simulated, simulated_no_initiatives>>

\* df['Waiting_List_No_Initiatives'] = waiting_list_no_initiatives[1:]
StoreNoInitiatives ==
    /\ variant = "initiative"
    /\ pc = "nothing"
    /\ week = Len(df)
    /\ simulated_no_initiatives' = Tail(waiting_list_no_initiatives)
    /\ pc' = "done"
    /\ UNCHANGED <<variant, error, df, forecastVars, initial_waiting_list,
                   demand_adjustment, capacity_adjustment, events, adjustment, week,
                   waiting_list, waiting_list_no_initiatives, simulated>>

(***************************************************************************)
(* Inputs: the data tables and the widget values the model draws from.     *)
(***************************************************************************)
\* the tables of 0..n rows at weeks 1, 2, ... whose cells come from RowValues
ForecastTables(RowValues, n) ==
    UNION {{[k \in 1..m |-> [WeekCommencing |-> k,
                             ClockStarts |-> f[k].ClockStarts,
                             ClockStops |-> f[k].ClockStops,
                             Over52Weeks |-> f[k].Over52Weeks]]
            : f \in [1..m -> RowValues]} : m \in 0..n}

RowValues ==
    {[ClockStarts |-> <<2>>, ClockStops |-> <<1>>, Over52Weeks |-> 5],
     [ClockStarts |-> <<>>, ClockStops |-> <<4>>, Over52Weeks |-> 0]}

QuantileRowValues ==
    {[ClockStarts |-> <<10>>, ClockStops |-> <<20>>, Over52Weeks |-> 30],
     [ClockStarts |-> <<20>>, ClockStops |-> <<10>>, Over52Weeks |-> 30],
     [ClockStarts |-> <<>>, ClockStops |-> <<>>, Over52Weeks |-> 30]}

\* what the user may enter in one initiative slot of the forecast script
SlotInputs ==
    {[name |-> "", start |-> 2, change |-> 3, use_end |-> FALSE, end |-> None],
     [name |-> "A", start |-> 2, change |-> 0, use_end |-> FALSE, end |-> None],
     [name |-> "A", start |-> 2, change |-> 3, use_end |-> FALSE, end |-> None],
     [name |-> "B", start |-> 3, change |-> -2, use_end |-> TRUE, end |-> 3],
     [name |-> "C", start |-> 3, change |-> 3, use_end |-> TRUE, end |-> 2],
     [name |-> "D", start |-> 2, change |-> -4, use_end |-> TRUE, end |-> 3]}

\* the widgets left at their defaults
DefaultSlotInputs ==
    {[name |-> "", start |-> 2, change |-> 0, use_end |-> FALSE, end |-> None]}

\* what the user may enter in one reset slot
ResetInputs ==
    {[enable |-> FALSE, date |-> None, value |-> None],
     [enable |-> TRUE, date |-> 2, value |-> 7],
     [enable |-> TRUE, date |-> 2, value |-> 1],
     [enable |-> TRUE, date |-> 3, value |-> 1]}

DefaultResetInputs == {[enable |-> FALSE, date |-> None, value |-> None]}

\* the tables of 0..n rows at weeks 1, 2, ... of the table-driven scripts
Tables(TableRowValues, n) ==
    UNION {{[k \in 1..m |-> [Week |-> k, Starts |-> f[k].Starts, Stops |-> f[k].Stops]]
            : f \in [1..m -> TableRowValues]} : m \in 0..n}

TableRowValues == {[Starts |-> 10, Stops |-> 15], [Starts |-> 0, Stops |-> 20]}

Initials == {5, 100}

\* (start, capacity) of one initiative or locum slot
EventInputs == {<<1, 0>>, <<2, 5>>, <<3, 2>>}

LocumAdjustments == {0, 1}

DailyAdjustments == {-1, 0, 2}

(***************************************************************************)
(* Specifications.                                                         *)
(***************************************************************************)
InitForecastVars ==
    /\ initiatives = <<>>
    /\ reset_date_1 = None /\ reset_value_1 = None
    /\ reset_date_2 = None /\ reset_value_2 = None
    /\ run = "" /\ i = 0 /\ wl = 0
    /\ future_data = <<>> /\ step = NoStep /\ step_log = <<>>
    /\ baseline_future = <<>> /\ future = <<>> /\ download_df = <<>>

InitTableVars ==
    /\ initial_waiting_list = 0
    /\ demand_adjustment = 0 /\ capacity_adjustment = 0
    /\ events = <<>> /\ adjustment = <<>> /\ week = 0
    /\ waiting_list = <<>> /\ waiting_list_no_initiatives = <<>>
    /\ simulated = <<>> /\ simulated_no_initiatives = <<>>

InitForecast(RowVals, n) ==
    /\ variant = "forecast"
    /\ pc = "percentile"
    /\ error = ""
    /\ df \in ForecastTables(RowVals, n)
    /\ today \in 1..(n + 1)
    /\ weeks_ahead \in 1..MaxWeeksAhead
    /\ InitForecastVars
    /\ InitTableVars

InitTable ==
    /\ variant \in {"initiative", "locum", "daily"}
    /\ pc = "sidebar"
    /\ error = ""
    /\ df \in Tables(TableRowValues, MaxTableRows)
    /\ today = None
    /\ weeks_ahead = 0
    /\ InitForecastVars
    /\ InitTableVars

Init == InitForecast(RowValues, MaxRows) \/ InitTable

NextForecast(Slots, Resets) ==
    \/ PercentileCalculation
    \/ Sidebar(Slots, Resets)
    \/ SimulateFutureEnter
    \/ SimulateFutureStep
    \/ SimulateFutureReturn
    \/ Export

NextTable ==
    \/ InitiativeSidebar(Initials, EventInputs)
    \/ LocumSidebar(Initials, LocumAdjustments, EventInputs)
    \/ DailySidebar(Initials, DailyAdjustments)
    \/ ApplyCapacityAdjustments
    \/ InitiativeStep
    \/ LocumStep
    \/ DailyStep
    \/ StoreSimulated
    \/ DoNothingStep
    \/ StoreNoInitiatives

Next == NextForecast(SlotInputs, ResetInputs) \/ NextTable

Spec == Init /\ [][Next]_vars

\* the forecast script on longer histories, the sidebar left at its defaults
InitQuantile == InitForecast(QuantileRowValues, MaxHistory)

NextQuantile == NextForecast(DefaultSlotInputs, DefaultResetInputs)

SpecQuantile == InitQuantile /\ [][NextQuantile]_vars

(***************************************************************************)
(* Claims.                                                                 *)
(***************************************************************************)
\* an iteration of simulate_future has completed and step holds its locals
StepDone == variant = "forecast" /\ step.i >= 0

\* the iteration's capacity was a number (not a missing last actual value)
StepHasCapacity == StepDone /\ step.adjusted_clock_stop # <<>>

\* the sum of the changes of the initiatives of the running call that are
\* active at week w: start <= w and (end absent or w <= end)
ActiveSumAt(w) ==
    SumSeq([k \in 1..Len(sim_initiatives) |->
              IF /\ sim_initiatives[k].start <= w
                 /\ ("end" \in DOMAIN sim_initiatives[k] => w <= sim_initiatives[k].end)
              THEN sim_initiatives[k].change ELSE 0])

NonNegative(column, field) ==
    \A k \in 1..Len(column) : column[k][field] >= 0

\* C1: floor invariant - every simulated waiting-list value emitted by
\* simulate_future and by the table-driven loops is >= 0, whatever the
\* adjustments (negative changes included) and the enabled resets.
C1_FloorInvariant ==
    /\ NonNegative(future_data, "Simulated_WaitingList")
    /\ NonNegative(baseline_future, "Simulated_WaitingList")
    /\ NonNegative(future, "Simulated_WaitingList")
    /\ \A k \in 1..Len(waiting_list) : waiting_list[k] >= 0
    /\ \A k \in 1..Len(waiting_list_no_initiatives) : waiting_list_no_initiatives[k] >= 0
    /\ \A k \in 1..Len(simulated) : simulated[k] >= 0
    /\ \A k \in 1..Len(simulated_no_initiatives) : simulated_no_initiatives[k] >= 0

\* C1 witness: a period of the run with initiatives whose capacity exceeds the
\* running value, emitted as 0, with a negative change among the initiatives
\* and a reset enabled.
C1_Witness ==
    /\ StepHasCapacity
    /\ run = "future"
    /\ step.wl_reset < step.adjusted_clock_stop[1]
    /\ step.wl_next = 0
    /\ \E k \in 1..Len(initiatives) : initiatives[k].change < 0
    /\ reset_date_1 # None

\* C2: recurrence step of simulate_future - the emitted value of every period
\* is max(0, running_value + demand_estimate - effective_capacity), the
\* running value taken after any reset.
C2_RecurrenceStep ==
    StepHasCapacity =>
        step.wl_next = Max(0, step.wl_reset + step.clock_start_65
                              - step.adjusted_clock_stop[1])

\* the capacity boosts of the events whose start date is <= w
BoostSum(w) ==
    SumSeq([e \in 1..Len(events) |-> IF events[e][1] <= w THEN events[e][2] ELSE 0])

\* the rows of the main loop computed so far
ComputedRows == 1..(Len(waiting_list) - 1)

\* C3 as claimed: in the initiative and the locum script, for every row k,
\* Simulated[k] = max(0, previous + Starts[k] - (Stops[k] + boosts of the
\* events with start <= Week[k])), previous being the initial waiting list for
\* the first row.
C3_TableRecurrenceOriginal ==
    (variant \in {"initiative", "locum"} /\ pc \in {"loop", "nothing", "done"}) =>
        /\ waiting_list[1] = initial_waiting_list
        /\ \A k \in ComputedRows :
              waiting_list[k + 1] =
                  Max(0, waiting_list[k] + df[k].Starts
                         - (df[k].Stops + BoostSum(df[k].Week)))

\* C3 amended: the recurrence holds with the locum script's global demand
\* adjustment added to Starts[k] and its global capacity adjustment added to
\* Stops[k] (both are absent, i.e. 0, in the initiative script); initial 100 with
\* demand 10 and capacity 15 for three weeks and no adjustment gives 95, 90, 85,
\* and 95, 85, 75 with one +5 event starting at the second week.
C3_TableRecurrence ==
    (variant \in {"initiative", "locum"} /\ pc \in {"loop", "nothing", "done"}) =>
        /\ waiting_list[1] = initial_waiting_list
        /\ \A k \in ComputedRows :
              waiting_list[k + 1] =
                  Max(0, waiting_list[k] + (df[k].Starts + demand_adjustment)
                         - (df[k].Stops + capacity_adjustment + BoostSum(df[k].Week)))
        /\ ( /\ pc = "done"
             /\ initial_waiting_list = 100
             /\ demand_adjustment = 0 /\ capacity_adjustment = 0
             /\ Len(df) = 3
             /\ \A k \in 1..3 : df[k].Starts = 10 /\ df[k].Stops = 15 )
           => /\ (\A e \in 1..Len(events) : events[e][2] = 0)
                    => simulated = <<95, 90, 85>>
              /\ (\E e \in 1..Len(events) :
                     /\ events[e] = <<2, 5>>
                     /\ \A o \in 1..Len(events) : o # e => events[o][2] = 0)
                    => simulated = <<95, 85, 75>>

\* C3 witness: the locum script finished a three-row table with unequal global
\* adjustments and a boost that starts at the second week.
C3_Witness ==
    /\ variant = "locum"
    /\ pc = "done"
    /\ Len(simulated) = 3
    /\ demand_adjustment # capacity_adjustment
    /\ \E e \in 1..Len(events) : events[e] = <<2, 5>>
    /\ simulated[3] > 0

\* the capacity of the iteration before any initiative is added
StepBaseCapacity ==
    IF step.i = 0 THEN last_actual_row.ClockStops[1] ELSE step.clock_stop_65

\* C4: adjustment activity - the capacity delta added for a period is the sum
\* of the changes of exactly the events with start <= period and (end absent or
\* period <= end); an event with start = end = P contributes at P.
C4_AdjustmentActivity ==
    StepHasCapacity =>
        step.adjusted_clock_stop[1] - StepBaseCapacity = ActiveSumAt(step.next_week)

\* C5: seam period - the effective capacity of the first simulated period is
\* the last actual capacity plus the changes of the initiatives active at that
\* period, and of every later period the extrapolated capacity plus them.
C5_SeamCapacity ==
    StepHasCapacity =>
        step.adjusted_clock_stop =
            <<(IF step.i = 0 THEN last_actual_row.ClockStops[1]
               ELSE step.clock_stop_65) + ActiveSumAt(step.next_week)>>

Reset1Hits == reset_date_1 # None /\ step.next_week = reset_date_1

Reset2Hits == reset_date_2 # None /\ step.next_week = reset_date_2

C7_DuplicateResetsRejected ==
    (variant = "forecast" /\ reset_date_1 # None /\ reset_date_1 = reset_date_2)
        => pc \notin {"call", "loop", "export", "done"}

\* the non-missing cells of a column over the rows strictly before week w
WindowValues(col, w) ==
    LET rows == {k \in 1..Len(df) : df[k].WeekCommencing < w /\ df[k][col] # <<>>}
    IN  [k \in rows |-> df[k][col][1]]

\* the r-th smallest (r = 0, 1, ...) of the values of f, by rank
OrderStatistic(f, r) ==
    CHOOSE v \in {f[k] : k \in DOMAIN f} :
        /\ Cardinality({k \in DOMAIN f : f[k] < v}) <= r
        /\ r < Cardinality({k \in DOMAIN f : f[k] <= v})

\* 100 times the 65th percentile of the values of f by linear interpolation:
\* with n values and h = 0.65 * (n - 1), the value at rank floor(h) plus the
\* fractional part of h times the step to the next rank
Percentile65x100(f) ==
    LET n  == Cardinality(DOMAIN f)
        h  == 65 * (n - 1)
        lo == h \div 100
        hi == IF lo + 1 < n THEN lo + 1 ELSE lo
    IN  100 * OrderStatistic(f, lo)
        + (h % 100) * (OrderStatistic(f, hi) - OrderStatistic(f, lo))

\* C8 as claimed: the demand and the capacity estimate of every period equal
\* the linear-interpolation 65th percentile of the non-missing values of their
\* column over the rows strictly before the period, exactly.
C8_ExactQuantile ==
    StepDone =>
        /\ 100 * step.clock_start_65
              = Percentile65x100(WindowValues("ClockStarts", step.next_week))
        /\ 100 * step.clock_stop_65
              = Percentile65x100(WindowValues("ClockStops", step.next_week))

\* e is the percentile q100 / 100 truncated to an integer (values are >= 0)
IsTruncationOf(e, q100) == 100 * e <= q100 /\ q100 < 100 * (e + 1)

\* C8 amended: the demand and the capacity estimate of every period equal that
\* 65th percentile truncated to an integer; for the values 10, 10, 10, 20, 20
\* the estimate is 16.
C8_TruncatedQuantile ==
    StepDone =>
        LET starts == WindowValues("ClockStarts", step.next_week)
            stops  == WindowValues("ClockStops", step.next_week)
            IsExample(f) ==
                /\ Cardinality(DOMAIN f) = 5
                /\ Cardinality({k \in DOMAIN f : f[k] = 10}) = 3
                /\ Cardinality({k \in DOMAIN f : f[k] = 20}) = 2
        IN  /\ IsTruncationOf(step.clock_start_65, Percentile65x100(starts))
            /\ IsTruncationOf(step.clock_stop_65, Percentile65x100(stops))
            /\ IsExample(starts) => step.clock_start_65 = 16
            /\ IsExample(stops) => step.clock_stop_65 = 16

\* C8 witness: a period whose window holds a missing cell and whose demand
\* percentile is fractional, so that dropping and truncating both show.
C8_Witness ==
    /\ StepDone
    /\ \E k \in 1..Len(df) :
          df[k].WeekCommencing < step.next_week /\ df[k].ClockStarts = <<>>
    /\ Percentile65x100(WindowValues("ClockStarts", step.next_week)) % 100 # 0
    /\ 100 * step.clock_start_65
          < Percentile65x100(WindowValues("ClockStarts", step.next_week))

\* the rows of a result of simulate_future are n rows at the n weeks that
\* follow the last actual week
IsForecastOf(rows, n) ==
    /\ Len(rows) = n
    /\ \A k \in 1..Len(rows) : rows[k].WeekCommencing = start_date + k

\* C9: output shape - a call of simulate_future with weeks_ahead = N returns
\* exactly N rows at one-week steps from the week after the last actual week
\* (while it runs, one row per completed iteration); the simulated column of a
\* table-driven script has one value per input row, in row order.
C9_OutputShape ==
    /\ (variant = "forecast" /\ pc = "loop") => IsForecastOf(future_data, i)
    /\ (variant = "forecast" /\ (run = "future" \/ pc \in {"export", "done"}))
          => IsForecastOf(baseline_future, weeks_ahead)
    /\ (variant = "forecast" /\ pc \in {"export", "done"})
          => IsForecastOf(future, weeks_ahead)
    /\ (variant \in {"initiative", "locum", "daily"} /\ pc \in {"nothing", "done"})
          => /\ Len(simulated) = Len(df)
             /\ \A k \in 1..Len(df) : simulated[k] = waiting_list[k + 1]

\* C9 witness: both calls returned with the largest weeks_ahead on a table
\* whose last actual week is not the first.
C9_Witness ==
    /\ variant = "forecast"
    /\ pc = "done"
    /\ weeks_ahead = MaxWeeksAhead
    /\ start_date > 1
    /\ Len(future) = MaxWeeksAhead
    /\ future[Len(future)].WeekCommencing = start_date + MaxWeeksAhead

\* C10: no adjustment with a zero capacity delta and no adjustment whose end
\* is before its start is among the events the simulation loops apply.
C10_NoInvalidEvents ==
    /\ \A k \in 1..Len(initiatives) :
          /\ initiatives[k].change # 0
          /\ "end" \in DOMAIN initiatives[k] => initiatives[k].start <= initiatives[k].end
    /\ \A e \in 1..Len(events) : events[e][2] # 0

\* no row before the as-of date holds a value in the column (in particular
\* when there is no row before the as-of date at all)
NoHistoricValue(col) ==
    \A k \in 1..Len(df) : df[k].WeekCommencing < today => df[k][col] = <<>>

\* the history cannot supply the demand or the capacity estimate
EmptyHistory ==
    /\ variant = "forecast"
    /\ NoHistoricValue("ClockStarts") \/ NoHistoricValue("ClockStops")

\* C11: with no historical row before the as-of date, or no non-missing
\* historical value for a quantile, the run can only end in an error: it never
\* reaches the export, every state that is not the error state has a next
\* step, no iteration of simulate_future completes (so no estimate and no
\* running value is ever made up), and no trajectory row is emitted, neither
\* into the list being built nor into a returned trajectory or the export.
C11_EmptyHistoryFails ==
    EmptyHistory =>
        /\ pc \notin {"export", "done"}
        /\ pc = "error" \/ ENABLED Next
        /\ pc = "error" => error \in {"ValueError", "IndexError", "NameError",
                                      "StreamlitAPIException"}
        /\ pc = "loop" => i = 0
        /\ step = NoStep
        /\ future_data = <<>>
        /\ baseline_future = <<>>
        /\ future = <<>>
        /\ download_df = <<>>

\* C11 witness: there are historic rows but none holds a demand value, and
\* the first iteration of the first call of simulate_future raised the error
\* of int(NaN) before any row was appended.
C11_Witness ==
    /\ EmptyHistory
    /\ historic # <<>>
    /\ pc = "error"
    /\ error = "ValueError"
    /\ run = "baseline"
    /\ i = 0
    /\ future_data = <<>>

\* C12: a call of simulate_future starts from the last actual row whatever
\* was called before it, and with an empty initiative list the second call
\* (same table, weeks_ahead, resets and as-of date as the baseline call)
\* rebuilds the baseline trajectory row by row and returns it unchanged.
C12_RunIndependence ==
    /\ (variant = "forecast" /\ pc = "loop" /\ i = 0)
          => /\ wl = last_actual_row.Over52Weeks
             /\ future_data = <<>>
    /\ (variant = "forecast" /\ pc = "loop" /\ run = "future" /\ initiatives = <<>>)
          => future_data = SubSeq(baseline_future, 1, i)
    /\ (variant = "forecast" /\ pc \in {"export", "done"} /\ initiatives = <<>>)
          => future = baseline_future

\* C12 witness: both calls returned with no initiative, over more than one
\* period, and the baseline call ended on a running value other than the
\* last actual one (so a value left behind would have shown).
C12_Witness ==
    /\ variant = "forecast"
    /\ pc = "done"
    /\ initiatives = <<>>
    /\ weeks_ahead > 1
    /\ baseline_future[weeks_ahead].Simulated_WaitingList # last_actual_row.Over52Weeks
    /\ future = baseline_future

\* C13: every iteration of simulate_future, the last one included, emits the
\* floored running value plus the iteration's demand estimate, so the value
\* emitted depends on the running value, the demand estimate and the
\* effective capacity only, not on the iteration being the last.
C13_UniformUpdate ==
    StepDone =>
        step.wl_next = FloorSub(step.wl_reset, step.adjusted_clock_stop)
                          + step.clock_start_65

\* the sum of the changes named by an Initiatives_Applied summary
RECURSIVE LabelSum(_)
LabelSum(labels) ==
    IF labels = <<>> THEN 0 ELSE Head(labels).change + LabelSum(Tail(labels))

\* the delta that iteration s of simulate_future included in its effective
\* capacity, on top of the capacity it started from (the last actual capacity
\* in the first period, the capacity estimate afterwards)
IncludedDelta(s) ==
    s.adjusted_clock_stop[1]
       - (IF s.i = 0 THEN last_actual_row.ClockStops[1] ELSE s.clock_stop_65)

\* C14: in the exported table, the row of every forecast week carries the week
\* simulate_future simulated, and its Initiatives_Applied summary names events
\* whose changes add up to the delta the call with initiatives included in
\* that week's effective capacity; the summary is empty when nothing was
\* included.
C14_ExportConsistency ==
    (variant = "forecast" /\ pc = "done") =>
        \A k \in 1..Len(step_log) :
            step_log[k].adjusted_clock_stop # <<>> =>
                LET row == download_df[Len(historic) + k]
                IN  /\ row.WeekCommencing = step_log[k].next_week
                    /\ LabelSum(row.Initiatives_Applied) = IncludedDelta(step_log[k])
                    /\ IncludedDelta(step_log[k]) = 0 => row.Initiatives_Applied = <<>>

\* C15: whatever combination of the two reset slots is enabled, the sidebar
\* does not fail on the combination (no name is read that only the other
\* slot binds), and every iteration of simulate_future applies exactly the
\* enabled resets whose date it reaches: the value of the slot that hits
\* (slot 2 when both hit), and the running value unchanged when none hits.
C15_ResetSlotsIndependent ==
    /\ ~(variant = "forecast" /\ pc = "error" /\ error = "NameError")
    /\ StepDone =>
          /\ (~Reset1Hits /\ ~Reset2Hits) => step.wl_reset = step.wl_in
          /\ (Reset1Hits /\ ~Reset2Hits) => step.wl_reset = reset_value_1
          /\ Reset2Hits => step.wl_reset = reset_value_2

====
